---- MODULE Spec2Model ----
(***************************************************************************)
(* State-machine model of src/app.py: the Streamlit assessment-review      *)
(* automation.  perform_automation drives one browser session through      *)
(* login and, per input line, a four-stage pipeline; setup_driver is       *)
(* memoised by st.cache_resource; get_stale_proof_text and                 *)
(* stale_proof_click are bounded retry loops.                              *)
(*                                                                         *)
(* Text is modelled as sequences of one-character strings, so that strip,  *)
(* split and the [:8] slice are computed as Python computes them.  The     *)
(* browser is the environment: every browser operation either succeeds or  *)
(* raises, chosen nondeterministically, except that an operation on a      *)
(* session that was already quit always raises.                            *)
(***************************************************************************)
EXTENDS Integers, Sequences, FiniteSets, TLC

\* ------------------------------------------------------------------------
\* Bounds of the model (not program constants)
\* ------------------------------------------------------------------------
MaxRuns == 2
MaxLines == 2
MaxRunLines == 1
MaxUnits == 2
MaxItemUnits == 3
MaxNow == 3
TicksPerSecond == 2

\* ------------------------------------------------------------------------
\* Text
\* ------------------------------------------------------------------------
NL == "NL"

IsSpace(c) == c \in {" ", NL}

RECURSIVE LStrip(_)
LStrip(s) == IF s = <<>> THEN s
             ELSE IF IsSpace(Head(s)) THEN LStrip(Tail(s)) ELSE s

RECURSIVE RStrip(_)
RStrip(s) == IF s = <<>> THEN s
             ELSE IF IsSpace(s[Len(s)]) THEN RStrip(SubSeq(s, 1, Len(s) - 1)) ELSE s

\* str.strip()
Strip(s) == RStrip(LStrip(s))

\* str.split(sep): always at least one field; "" splits into [""]
RECURSIVE Split(_, _)
Split(s, sep) ==
    IF \E k \in 1..Len(s) : s[k] = sep
    THEN LET k == CHOOSE k \in 1..Len(s) : s[k] = sep /\ \A j \in 1..(k - 1) : s[j] # sep
         IN  <<SubSeq(s, 1, k - 1)>> \o Split(SubSeq(s, k + 1, Len(s)), sep)
    ELSE <<s>>

\* s[:8]
PrefixLen == 8
Slice8(s) == SubSeq(s, 1, IF Len(s) < PrefixLen THEN Len(s) ELSE PrefixLen)

\* [line.strip() for line in assessment_data.strip().split('\n') if line.strip()]
RECURSIVE StripNonBlank(_)
StripNonBlank(ls) ==
    IF ls = <<>> THEN <<>>
    ELSE IF Strip(Head(ls)) # <<>>
         THEN <<Strip(Head(ls))>> \o StripNonBlank(Tail(ls))
         ELSE StripNonBlank(Tail(ls))

InputLines(data) == StripNonBlank(Split(Strip(data), NL))

\* datetime.strptime, scaled down to one-digit fields: '%H:%M:%S' accepts
\* exactly d:d:d and '%H:%M' exactly d:d.  The value is in seconds; -1 stands
\* for ValueError.
Digits == {"0", "1", "2"}
DigitVal(c) == IF c = "0" THEN 0 ELSE IF c = "1" THEN 1 ELSE 2

FmtSeconds == "HMS"
FmtMinutes == "HM"

Strptime(s, fmt) ==
    IF fmt = FmtSeconds
    THEN IF /\ Len(s) = 5
            /\ s[1] \in Digits /\ s[2] = ":" /\ s[3] \in Digits
            /\ s[4] = ":" /\ s[5] \in Digits
         THEN DigitVal(s[1]) * 3600 + DigitVal(s[3]) * 60 + DigitVal(s[5])
         ELSE -1
    ELSE IF /\ Len(s) = 3
            /\ s[1] \in Digits /\ s[2] = ":" /\ s[3] \in Digits
         THEN DigitVal(s[1]) * 3600 + DigitVal(s[3]) * 60
         ELSE -1

\* ------------------------------------------------------------------------
\* Inputs
\* ------------------------------------------------------------------------
IdLong == <<"a", "b", "c", "1", "2", "3", "4", "5", "-", "x">>
IdShort == <<"z", "9">>
IdResolved == <<"n", "e", "w", "1", "2", "3", "4", "5", "-", "y">>
TsSeconds == <<"0", ":", "0", ":", "2">>
TsMinutes == <<"0", ":", "1">>

RawLines ==
    { <<" ">>,
      IdShort,
      IdLong \o <<",", " ">> \o TsSeconds,
      <<" ">> \o IdShort \o <<",">> \o TsMinutes \o <<" ">>,
      IdShort \o <<",", "?">>,
      IdShort \o <<",">> \o TsMinutes \o <<",">> }

RECURSIVE Join(_)
Join(ls) == IF ls = <<>> THEN <<>>
            ELSE IF Len(ls) = 1 THEN ls[1]
            ELSE ls[1] \o <<NL>> \o Join(Tail(ls))

\* The inputs of at most n lines
Blobs(n) == { Join(ls) : ls \in UNION { [1..k -> RawLines] : k \in 0..n } }

\* Number of lines of the input that hold a non-blank character
NonBlankCount(data) ==
    LET ls == Split(data, NL)
    IN  Cardinality({ k \in 1..Len(ls) : \E j \in 1..Len(ls[k]) : ~IsSpace(ls[k][j]) })

\* What the admin pages can show (the environment's answers)
UnitA == <<"u", "n", "i", "t", "-", "1", "1", "1", "a">>
UnitB == <<"u", "n", "i", "t", "-", "2", "2", "2", "b">>
UnitC == <<"u", "n", "i", "t", "-", "3", "3", "3", "c">>
UnitD == <<"u", "n", "i", "t", "-", "4", "4", "4", "d">>
UnitRows == <<UnitA, UnitB, UnitC, UnitD>>

\* The result rows a unit search can show: the first n rows of the table
UnitLists == { SubSeq(UnitRows, 1, n) : n \in 0..Len(UnitRows) }

\* The id the assessment list shows: one that differs from every input id
AssessmentIdTexts == {IdResolved}

\* ------------------------------------------------------------------------
\* Browser operations issued by each straight-line block, in program order
\* ------------------------------------------------------------------------
LoginOps == <<"get", "wait", "send_keys", "find", "send_keys", "find", "click", "wait">>
Stage1Ops == <<"get", "wait", "click", "wait", "send_keys", "wait", "click", "wait",
               "send_keys", "find", "clear", "send_keys", "find", "click", "wait">>
Stage2Ops == <<"get", "wait", "clear", "send_keys", "find", "click">>
Stage3Ops == <<"get", "wait", "clear", "send_keys", "find", "click">>
Stage4Ops == <<"get", "wait", "clear", "send_keys", "find", "click">>

\* Exceptions and their str()
Stale == "StaleElementReferenceException"
Timeout == "TimeoutException"
WebDriverError == "WebDriverException"
TextExhausted == "Could not get text from element"
ClickExhausted == "Could not click the element"

\* One "; "-terminated piece of result["Details"]
Entry(tag, arg, n) == [tag |-> tag, arg |-> arg, n |-> n]

NoResult == [ID |-> <<>>, Status |-> "", Details |-> <<>>]

\* ------------------------------------------------------------------------
\* State
\* ------------------------------------------------------------------------
VARIABLES
    runBudget,          \* calls of perform_automation the process will make
    lineBudget,         \* lines an input has at most
    unitBudget,         \* rows a unit search shows at most
    run,                \* number of perform_automation calls started in this process
    cache,              \* st.cache_resource holds a driver for setup_driver
    alive,              \* the (one) browser session exists and was not quit
    quits,              \* driver.quit() calls received by the session so far
    createdRun,         \* run in which the session was created (0: none yet)
    deadOps,            \* browser operations issued on the session after it was quit
    pc,                 \* position in perform_automation
    exit,               \* which return statement ended the run
    driver,             \* the run holds a driver
    assessment_data,    \* argument of perform_automation
    inputLines,         \* number of non-blank lines of that argument
    lines, i, results,  \* locals of perform_automation
    result, parts, completion_dt, new_assessment_id, unit_ids, u,
    attempts,           \* local of the retry loop being executed
    max_attempts,       \* parameter of the accessor being executed
    exc,                \* the exception being propagated
    runQuits,           \* driver.quit() calls made by this run
    login,              \* outcome of this run's login: "none", "ok", "failed"
    pipelineUsed,       \* this run issued a browser operation inside the item loop
    processed,          \* indices of the lines whose loop body was entered, in order
    opStages,           \* stages that issued a browser operation for the current item
    cycles,             \* locate-and-act cycles made by the accessor last called
    allStale,           \* every one of them ended with a stale element
    typed,              \* content of the delay field of the open review-config form
    clock,              \* datetime.now() read for that form, in clock ticks
    cfg,                \* site: submissions of the item's review-config form
    saves,              \* site: exam forms submitted for the item, in order
    keys,               \* search terms typed for the item, in order
    enabled,            \* units whose enable stage was entered for the current item
    box                 \* checkbox handling of the last of them

procVars == <<runBudget, lineBudget, unitBudget, run, cache, alive, quits, createdRun, deadOps>>
runRest == <<exit, driver, assessment_data, inputLines, lines, i, results, runQuits,
             login, pipelineUsed, processed>>
runVars == <<pc, runRest>>
itemVars == <<result, parts, completion_dt, new_assessment_id, unit_ids, u,
              attempts, max_attempts, exc, opStages, cycles, allStale, typed, clock,
              cfg, saves, keys,
              enabled, box>>
vars == <<procVars, runVars, itemVars>>

NoCfg == [submitted |-> 0, confirmed |-> FALSE]

NoBox == [answered |-> FALSE, wasSelected |-> FALSE, clicks |-> 0, checkedAtSave |-> FALSE,
          saved |-> FALSE, confirmed |-> FALSE]

ItemReset ==
    /\ result = NoResult /\ parts = <<>> /\ completion_dt = -1
    /\ new_assessment_id = <<>> /\ unit_ids = <<>> /\ u = 0
    /\ attempts = 0 /\ max_attempts = 0 /\ exc = ""
    /\ opStages = {} /\ cycles = 0 /\ allStale = TRUE /\ typed = -1 /\ clock = -1
    /\ cfg = NoCfg /\ saves = <<>> /\ keys = <<>>
    /\ enabled = <<>> /\ box = NoBox

RunReset ==
    /\ pc = "idle" /\ exit = "" /\ driver = FALSE /\ assessment_data = <<>>
    /\ inputLines = 0
    /\ lines = <<>> /\ i = 0 /\ results = <<>> /\ runQuits = 0 /\ login = "none"
    /\ pipelineUsed = FALSE /\ processed = <<>>

\* The same values, assigned
ItemClear ==
    /\ result' = NoResult /\ parts' = <<>> /\ completion_dt' = -1
    /\ new_assessment_id' = <<>> /\ unit_ids' = <<>> /\ u' = 0
    /\ attempts' = 0 /\ max_attempts' = 0 /\ exc' = ""
    /\ opStages' = {} /\ cycles' = 0 /\ allStale' = TRUE /\ typed' = -1 /\ clock' = -1
    /\ cfg' = NoCfg /\ saves' = <<>> /\ keys' = <<>>
    /\ enabled' = <<>> /\ box' = NoBox

RunClear ==
    /\ pc' = "idle" /\ exit' = "" /\ driver' = FALSE /\ assessment_data' = <<>>
    /\ inputLines' = 0
    /\ lines' = <<>> /\ i' = 0 /\ results' = <<>> /\ runQuits' = 0 /\ login' = "none"
    /\ pipelineUsed' = FALSE /\ processed' = <<>>

Fresh ==
    /\ run = 0 /\ cache = FALSE /\ alive = FALSE /\ quits = 0
    /\ createdRun = 0 /\ deadOps = 0
    /\ RunReset
    /\ ItemReset

\* One call of perform_automation in a fresh process
Init ==
    /\ runBudget = 1
    /\ lineBudget = MaxLines
    /\ unitBudget = MaxUnits
    /\ Fresh

\* Several calls in one process, each with a short input
InitRuns ==
    /\ runBudget = MaxRuns
    /\ lineBudget = MaxRunLines
    /\ unitBudget = MaxUnits
    /\ Fresh

\* One call with a short input whose unit searches show more rows
InitUnits ==
    /\ runBudget = 1
    /\ lineBudget = MaxRunLines
    /\ unitBudget = MaxItemUnits
    /\ Fresh

\* ------------------------------------------------------------------------
\* Helpers
\* ------------------------------------------------------------------------
\* The exception an operation raises when it fails
ExcOf(op) == IF op = "wait" THEN Timeout ELSE WebDriverError

\* A block of the given stage issues browser operations
AddOps(stage) == opStages' = opStages \cup {stage}

\* send_keys of a search term by a block of the given stage
Typed(stage, term) == Append(keys, [stage |-> stage, key |-> term])

\* Variant: a new detail replaces the log
AddDetailOverwrite(r, e) == [r EXCEPT !.Details = <<e>>]

\* result["Details"] += ...
AddDetail(r, e) == [r EXCEPT !.Details = Append(@, e)]

\* driver.quit()
DriverQuit ==
    /\ alive' = FALSE
    /\ quits' = quits + 1
    /\ runQuits' = runQuits + 1

\* ------------------------------------------------------------------------
\* setup_driver, memoised by st.cache_resource: the first successful call
\* creates the session and stores it; every later call returns the stored one.
\* ------------------------------------------------------------------------
setup_driver(ok) ==
    IF cache
    THEN /\ ok
         /\ UNCHANGED <<cache, alive, quits, createdRun>>
    ELSE IF ok
         THEN /\ cache' = TRUE
              /\ alive' = TRUE
              /\ quits' = 0
              /\ createdRun' = run'
         ELSE UNCHANGED <<cache, alive, quits, createdRun>>

\* ------------------------------------------------------------------------
\* perform_automation
\* ------------------------------------------------------------------------
\* Entry and driver startup
StartRun ==
    /\ pc = "idle"
    /\ run < runBudget
    /\ run' = run + 1
    /\ \E data \in Blobs(lineBudget), ok \in BOOLEAN :
          /\ assessment_data' = data
          /\ inputLines' = NonBlankCount(data)
          /\ setup_driver(ok)
          /\ driver' = ok
          /\ IF ok THEN /\ pc' = "login"
                        /\ exit' = exit
                   ELSE /\ pc' = "returned"
                        /\ exit' = "setup"
    /\ UNCHANGED <<runBudget, lineBudget, unitBudget, deadOps, lines, i, results, runQuits, login,
                   pipelineUsed, processed>>
    /\ UNCHANGED itemVars

\* Variant: a failed login is reported and the run goes on
LoginGoesOn(f) ==
    /\ pc = "login"
    /\ ~alive => f = 1
    /\ deadOps' = IF alive THEN deadOps ELSE deadOps + 1
    /\ login' = IF f = 0 THEN "ok" ELSE "failed"
    /\ pc' = "lines"
    /\ UNCHANGED <<alive, quits, runQuits, exit>>
    /\ UNCHANGED <<runBudget, lineBudget, unitBudget, run, cache, createdRun, driver, assessment_data,
                   inputLines, lines, i, results, pipelineUsed, processed>>
    /\ UNCHANGED itemVars

\* Login; f is the operation that raises (0: none).  A session that was quit
\* refuses the first operation.
Login(f) ==
    /\ pc = "login"
    /\ ~alive => f = 1
    /\ deadOps' = IF alive THEN deadOps ELSE deadOps + 1
    /\ IF f = 0
       THEN /\ login' = "ok"
            /\ pc' = "lines"
            /\ UNCHANGED <<alive, quits, runQuits, exit>>
       ELSE /\ login' = "failed"
            /\ DriverQuit
            /\ pc' = "returned"
            /\ exit' = "login"
    /\ UNCHANGED <<runBudget, lineBudget, unitBudget, run, cache, createdRun, driver, assessment_data,
                   inputLines, lines, i, results, pipelineUsed, processed>>
    /\ UNCHANGED itemVars

\* Variant: the early return on an empty input forgets the driver
ReadLinesNoQuit ==
    /\ pc = "lines"
    /\ lines' = InputLines(assessment_data)
    /\ IF Len(lines') = 0
       THEN /\ pc' = "returned"
            /\ exit' = "nolines"
       ELSE /\ pc' = "loop"
            /\ exit' = exit
    /\ UNCHANGED <<alive, quits, runQuits>>
    /\ assessment_data' = <<>>
    /\ i' = 0
    /\ results' = <<>>
    /\ UNCHANGED <<runBudget, lineBudget, unitBudget, run, cache, createdRun, deadOps, driver,
                   inputLines, login, pipelineUsed, processed>>
    /\ UNCHANGED itemVars

\* Split the input into its non-blank lines; the argument is not read again
ReadLines ==
    /\ pc = "lines"
    /\ lines' = InputLines(assessment_data)
    /\ IF Len(lines') = 0
       THEN /\ DriverQuit
            /\ pc' = "returned"
            /\ exit' = "nolines"
       ELSE /\ pc' = "loop"
            /\ UNCHANGED <<alive, quits, runQuits, exit>>
    /\ assessment_data' = <<>>
    /\ i' = 0
    /\ results' = <<>>
    /\ UNCHANGED <<runBudget, lineBudget, unitBudget, run, cache, createdRun, deadOps, driver,
                   inputLines, login, pipelineUsed, processed>>
    /\ UNCHANGED itemVars

\* Variant: only a missing field is rejected
MalformedTooFew(p) == Len(p) < 2

\* len(parts) != 2
Malformed(p) == Len(p) # 2

\* Loop body up to the field-count test.  The `continue` of a malformed line
\* leaves the try statement, so control passes through the finally clause.
ItemBegin ==
    /\ pc = "loop"
    /\ i < Len(lines)
    /\ processed' = Append(processed, i + 1)
    /\ parts' = Split(lines[i + 1], ",")
    /\ IF Malformed(parts')
       THEN /\ result' = [ID |-> <<>>, Status |-> "Failed",
                          Details |-> <<Entry("Malformed input line", <<>>, 0)>>]
            /\ results' = Append(results, result')
            /\ pc' = "finally"
       ELSE /\ result' = [ID |-> Strip(parts'[1]), Status |-> "Failed", Details |-> <<>>]
            /\ results' = results
            /\ pc' = "ts"
    /\ UNCHANGED procVars
    /\ UNCHANGED <<exit, driver, assessment_data, inputLines, lines, i, runQuits, login,
                   pipelineUsed>>
    /\ UNCHANGED <<completion_dt, new_assessment_id, unit_ids, u, attempts, max_attempts,
                   exc, opStages, cycles, allStale, typed, clock, cfg, saves,
                   keys, enabled, box>>

\* Stage 1, timestamp: seconds format first, minutes format second
ParseTimestamp ==
    /\ pc = "ts"
    /\ LET completion_time_str == Strip(parts[2])
           a == Strptime(completion_time_str, FmtSeconds)
           b == Strptime(completion_time_str, FmtMinutes)
           dt == IF a # -1 THEN a ELSE b
       IN  IF dt = -1
           THEN /\ result' = AddDetail(result, Entry("Invalid datetime format", <<>>, 0))
                /\ results' = Append(results, result')
                /\ pc' = "finally"
                /\ completion_dt' = completion_dt
           ELSE /\ completion_dt' = dt
                /\ pc' = "s1"
                /\ UNCHANGED <<result, results>>
    /\ UNCHANGED procVars
    /\ UNCHANGED <<exit, driver, assessment_data, inputLines, lines, i, runQuits, login,
                   pipelineUsed, processed>>
    /\ UNCHANGED <<parts, new_assessment_id, unit_ids, u, attempts, max_attempts,
                   exc, opStages, cycles, allStale, typed, clock, cfg, saves,
                   keys, enabled, box>>

\* Default max_attempts of the two accessors, and the bound of the inline
\* unit-id read loop
TextMaxAttempts == 5
ClickMaxAttempts == 5
UnitReadAttempts == 3

\* Variant: the click loop gives up one attempt early
ClickLoopShort(a, m) == a + 1 < m

\* The loop tests of the three retry loops
TextLoop(a, m) == a < m
ClickLoop(a, m) == a < m
UnitLoop(a) == a < UnitReadAttempts

\* int(x) of a duration of t clock ticks: whole seconds, rounded towards zero
IntSeconds(t) ==
    IF t >= 0 THEN t \div TicksPerSecond ELSE -((-t) \div TicksPerSecond)

\* Variant: a negative delay is typed as it is
TimeDeltaUnclamped(now, completion) ==
    IntSeconds(now - completion * TicksPerSecond)

\* The delay typed into the form: int((current_dt - completion_dt)
\* .total_seconds()), set to 0 when negative.  now is datetime.now() in clock
\* ticks, completion the parsed timestamp in seconds.
TimeDelta(now, completion) ==
    LET time_delta_seconds == IntSeconds(now - completion * TicksPerSecond)
    IN  IF time_delta_seconds < 0 THEN 0 ELSE time_delta_seconds

\* parts[0].strip(), which is also the Result's ID
original_assess_id == Strip(parts[1])

\* Variant: the unit search goes by the original id
UnitsSearchTermOriginal(original, resolved) == Slice8(original)

\* The term of the stage-3 search: the prefix of the id resolved in stage 2
UnitsSearchTerm(original, resolved) == Slice8(resolved)

\* Variant: a failure of stage 1 is swallowed and stage 2 starts
CreateReviewConfigGoesOn(now, f) ==
    /\ pc = "s1"
    /\ AddOps(1)
    /\ pipelineUsed' = TRUE
    /\ typed' = IF f = 0 \/ f > 12 THEN TimeDelta(now, completion_dt) ELSE typed
    /\ clock' = IF f = 0 \/ f > 12 THEN now ELSE clock
    /\ keys' = IF f = 0 \/ f > 5 THEN Typed(1, Slice8(original_assess_id)) ELSE keys
    /\ cfg' = [submitted |-> IF f = 0 \/ f > 14 THEN cfg.submitted + 1 ELSE cfg.submitted,
               confirmed |-> f = 0]
    /\ result' = IF f = 0
                 THEN AddDetail([result EXCEPT !.Status = "Success"],
                                Entry("Review config created", <<>>, 0))
                 ELSE result
    /\ pc' = "s2"
    /\ exc' = exc
    /\ UNCHANGED procVars
    /\ UNCHANGED <<exit, driver, assessment_data, inputLines, lines, i, results, runQuits,
                   login, processed>>
    /\ UNCHANGED <<parts, completion_dt, new_assessment_id, unit_ids, u, attempts,
                   max_attempts, cycles, allStale, saves, enabled, box>>

\* Stage 1, form: create the review config.  The delay is typed by the 12th
\* operation; the 14th clicks save and the 15th waits for the success banner.
CreateReviewConfig(now, f) ==
    /\ pc = "s1"
    /\ AddOps(1)
    /\ pipelineUsed' = TRUE
    /\ typed' = IF f = 0 \/ f > 12 THEN TimeDelta(now, completion_dt) ELSE typed
    /\ clock' = IF f = 0 \/ f > 12 THEN now ELSE clock
    /\ keys' = IF f = 0 \/ f > 5 THEN Typed(1, Slice8(original_assess_id)) ELSE keys
    /\ cfg' = [submitted |-> IF f = 0 \/ f > 14 THEN cfg.submitted + 1 ELSE cfg.submitted,
               confirmed |-> f = 0]
    /\ IF f = 0
       THEN /\ result' = AddDetail([result EXCEPT !.Status = "Success"],
                                   Entry("Review config created", <<>>, 0))
            /\ pc' = "s2"
            /\ exc' = exc
       ELSE /\ exc' = ExcOf(Stage1Ops[f])
            /\ pc' = "except"
            /\ result' = result
    /\ UNCHANGED procVars
    /\ UNCHANGED <<exit, driver, assessment_data, inputLines, lines, i, results, runQuits,
                   login, processed>>
    /\ UNCHANGED <<parts, completion_dt, new_assessment_id, unit_ids, u, attempts,
                   max_attempts, cycles, allStale, saves, enabled, box>>

\* Stage 2, search, then the call of get_stale_proof_text.  Once the list
\* view is loaded the review-config form is gone.
SearchAssessment(f) ==
    /\ pc = "s2"
    /\ AddOps(2)
    /\ typed' = IF f = 1 THEN typed ELSE -1
    /\ clock' = IF f = 1 THEN clock ELSE -1
    /\ keys' = IF f = 0 \/ f > 4 THEN Typed(2, Slice8(original_assess_id)) ELSE keys
    /\ IF f = 0
       THEN /\ pc' = "gst"
            /\ max_attempts' = TextMaxAttempts
            /\ attempts' = 0
            /\ exc' = exc
       ELSE /\ exc' = ExcOf(Stage2Ops[f])
            /\ pc' = "except"
            /\ UNCHANGED <<max_attempts, attempts>>
    /\ UNCHANGED procVars
    /\ UNCHANGED runRest
    /\ UNCHANGED <<result, parts, completion_dt, new_assessment_id, unit_ids, u,
                   cycles, allStale, cfg, saves, enabled, box>>

\* get_stale_proof_text, one pass of the while loop
get_stale_proof_text(outcome, text) ==
    /\ pc = "gst"
    /\ TextLoop(attempts, max_attempts)
    /\ cycles' = cycles + 1
    /\ AddOps(2)
    /\ CASE outcome = "ok" ->
              /\ new_assessment_id' = text
              /\ pc' = "s3"
              /\ attempts' = 0
              /\ allStale' = allStale
              /\ exc' = exc
         [] outcome = Stale ->
              /\ attempts' = attempts + 1
              /\ allStale' = allStale
              /\ UNCHANGED <<new_assessment_id, pc, exc>>
         [] OTHER ->
              /\ exc' = Timeout
              /\ pc' = "except"
              /\ allStale' = FALSE
              /\ UNCHANGED <<new_assessment_id, attempts>>
    /\ UNCHANGED procVars
    /\ UNCHANGED runRest
    /\ UNCHANGED <<result, parts, completion_dt, unit_ids, u, max_attempts, typed, clock, cfg,
                   saves, keys, enabled, box>>

\* get_stale_proof_text, the raise after the loop
TextRaise ==
    /\ pc = "gst"
    /\ ~TextLoop(attempts, max_attempts)
    /\ exc' = TextExhausted
    /\ pc' = "except"
    /\ UNCHANGED procVars
    /\ UNCHANGED runRest
    /\ UNCHANGED <<result, parts, completion_dt, new_assessment_id, unit_ids, u, attempts,
                   max_attempts, opStages, cycles, allStale, typed, clock, cfg, saves,
                   keys, enabled, box>>

\* Stage 3, search with the prefix of the resolved id
SearchUnits(f) ==
    /\ pc = "s3"
    /\ result' = AddDetail(result, Entry("New ID", new_assessment_id, 0))
    /\ AddOps(3)
    /\ keys' = IF f = 0 \/ f > 4
               THEN Typed(3, UnitsSearchTerm(original_assess_id, new_assessment_id))
               ELSE keys
    /\ cycles' = 0
    /\ allStale' = TRUE
    /\ IF f = 0
       THEN /\ unit_ids' = <<>>
            /\ attempts' = 0
            /\ pc' = "s3_read"
            /\ exc' = exc
       ELSE /\ exc' = ExcOf(Stage3Ops[f])
            /\ pc' = "except"
            /\ UNCHANGED <<unit_ids, attempts>>
    /\ UNCHANGED procVars
    /\ UNCHANGED runRest
    /\ UNCHANGED <<parts, completion_dt, new_assessment_id, u, max_attempts,
                   typed, clock, cfg, saves, enabled, box>>

\* Stage 3, one pass of the read loop.  presence_of_all_elements_located is
\* false on an empty list, so a successful wait returns at least one row.
ReadUnitIds(outcome, rows) ==
    /\ pc = "s3_read"
    /\ UnitLoop(attempts)
    /\ Len(rows) <= unitBudget
    /\ AddOps(3)
    /\ CASE outcome = "ok" ->
              /\ unit_ids' = rows
              /\ pc' = "s3_check"
              /\ UNCHANGED <<attempts, exc>>
         [] outcome = Stale ->
              /\ attempts' = attempts + 1
              /\ UNCHANGED <<unit_ids, pc, exc>>
         [] OTHER ->
              /\ exc' = Timeout
              /\ pc' = "except"
              /\ UNCHANGED <<unit_ids, attempts>>
    /\ UNCHANGED procVars
    /\ UNCHANGED runRest
    /\ UNCHANGED <<result, parts, completion_dt, new_assessment_id, u, max_attempts,
                   cycles, allStale, typed, clock, cfg, saves, keys,
                   enabled, box>>

\* Stage 3, after the loop (by break, or with the attempts used up)
CheckUnitIds ==
    /\ \/ pc = "s3_check"
       \/ pc = "s3_read" /\ ~UnitLoop(attempts)
    /\ IF unit_ids = <<>>
       THEN /\ result' = AddDetail(result, Entry("No Unit IDs found", <<>>, 0))
            /\ results' = Append(results, result')
            /\ pc' = "finally"
            /\ u' = u
       ELSE /\ result' = AddDetail(result, Entry("Found units", <<>>, Len(unit_ids)))
            /\ results' = results
            /\ u' = 1
            /\ pc' = "s4"
    /\ UNCHANGED procVars
    /\ UNCHANGED <<exit, driver, assessment_data, inputLines, lines, i, runQuits, login,
                   pipelineUsed, processed>>
    /\ UNCHANGED <<parts, completion_dt, new_assessment_id, unit_ids, attempts,
                   max_attempts, exc, opStages, cycles, allStale, typed, clock, cfg, saves,
                   keys, enabled, box>>

\* Stage 4, loop body up to the call of stale_proof_click
SearchExam(f) ==
    /\ pc = "s4"
    /\ u <= Len(unit_ids)
    /\ enabled' = Append(enabled, unit_ids[u])
    /\ box' = NoBox
    /\ AddOps(4)
    /\ keys' = IF f = 0 \/ f > 4 THEN Typed(4, Slice8(unit_ids[u])) ELSE keys
    /\ IF f = 0
       THEN /\ pc' = "spc"
            /\ max_attempts' = ClickMaxAttempts
            /\ attempts' = 0
            /\ exc' = exc
       ELSE /\ exc' = ExcOf(Stage4Ops[f])
            /\ pc' = "except"
            /\ UNCHANGED <<max_attempts, attempts>>
    /\ UNCHANGED procVars
    /\ UNCHANGED runRest
    /\ UNCHANGED <<result, parts, completion_dt, new_assessment_id, unit_ids, u,
                   cycles, allStale, typed, clock, cfg, saves>>

\* Variant: the click accessor retries a stale element only, a wait timeout
\* leaves it
StaleProofClickStaleOnly(outcome) ==
    /\ pc = "spc"
    /\ ClickLoop(attempts, max_attempts)
    /\ AddOps(4)
    /\ cycles' = cycles + 1
    /\ CASE outcome = "ok" ->
              /\ pc' = "box"
              /\ attempts' = 0
              /\ UNCHANGED <<allStale, exc>>
         [] outcome = Stale ->
              /\ attempts' = attempts + 1
              /\ UNCHANGED <<allStale, pc, exc>>
         [] OTHER ->
              /\ exc' = Timeout
              /\ pc' = "except"
              /\ allStale' = FALSE
              /\ attempts' = attempts
    /\ UNCHANGED procVars
    /\ UNCHANGED runRest
    /\ UNCHANGED <<result, parts, completion_dt, new_assessment_id, unit_ids, u,
                   max_attempts, typed, clock, cfg, saves, keys, enabled, box>>

\* stale_proof_click, one pass of the while loop
stale_proof_click(outcome) ==
    /\ pc = "spc"
    /\ ClickLoop(attempts, max_attempts)
    /\ AddOps(4)
    /\ IF outcome = "ok"
       THEN /\ pc' = "box"
            /\ attempts' = 0
            /\ cycles' = cycles + 1
            /\ allStale' = allStale
       ELSE /\ attempts' = attempts + 1
            /\ cycles' = cycles + 1
            /\ allStale' = (allStale /\ outcome = Stale)
            /\ pc' = pc
    /\ UNCHANGED procVars
    /\ UNCHANGED runRest
    /\ UNCHANGED <<result, parts, completion_dt, new_assessment_id, unit_ids, u,
                   max_attempts, exc, typed, clock, cfg, saves, keys, enabled, box>>

\* stale_proof_click, the raise after the loop
ClickRaise ==
    /\ pc = "spc"
    /\ ~ClickLoop(attempts, max_attempts)
    /\ exc' = ClickExhausted
    /\ pc' = "except"
    /\ UNCHANGED procVars
    /\ UNCHANGED runRest
    /\ UNCHANGED <<result, parts, completion_dt, new_assessment_id, unit_ids, u, attempts,
                   max_attempts, opStages, cycles, allStale, typed, clock, cfg, saves,
                   keys, enabled, box>>

\* Variant: the checkbox is clicked whatever its state
ShouldClickAlways(selected) == TRUE

\* if not review_checkbox.is_selected(): click it
ShouldClick(selected) == ~selected

\* Variant: the unit loop skips every other unit
NextUnitSkip(k) == k + 2

\* The unit the for loop takes after the u-th
NextUnit(k) == k + 1

\* Operations of the checkbox-and-save block
BoxOps(selected) ==
    <<"wait", "is_selected">> \o (IF ShouldClick(selected) THEN <<"click">> ELSE <<>>)
        \o <<"find", "click", "wait">>

\* Variant: the unit is logged as enabled once save is clicked, before the
\* banner is awaited
EnableReviewLogsEarly(selected, f) ==
    /\ pc = "box"
    /\ LET ops == BoxOps(selected)
           n == Len(ops)
           reached(k) == f = 0 \/ f > k
           click == ShouldClick(selected)
           e == [answered |-> reached(2),
                 wasSelected |-> selected /\ reached(2),
                 clicks |-> IF click /\ (f = 0 \/ f >= 3) THEN 1 ELSE 0,
                 checkedAtSave |-> reached(n - 1) /\ (IF click THEN ~selected ELSE selected),
                 saved |-> reached(n - 1),
                 confirmed |-> f = 0]
       IN  /\ box' = e
           /\ AddOps(4)
           /\ saves' = IF reached(n - 1)
                        THEN Append(saves, [unit |-> unit_ids[u], confirmed |-> f = 0])
                        ELSE saves
           /\ cycles' = 0
           /\ allStale' = TRUE
           /\ result' = IF reached(n - 1)
                        THEN AddDetail(result, Entry("Enabled review for", unit_ids[u], 0))
                        ELSE result
           /\ IF f = 0
              THEN /\ u' = NextUnit(u)
                   /\ pc' = "s4"
                   /\ exc' = exc
              ELSE /\ exc' = ExcOf(ops[f])
                   /\ pc' = "except"
                   /\ u' = u
    /\ UNCHANGED procVars
    /\ UNCHANGED runRest
    /\ UNCHANGED <<parts, completion_dt, new_assessment_id, unit_ids, attempts,
                   max_attempts, typed, clock, cfg, keys, enabled>>

\* Stage 4, checkbox and save.  selected is the state of the control when the
\* form opens, which is_selected() reports; a click toggles the control.
EnableReview(selected, f) ==
    /\ pc = "box"
    /\ LET ops == BoxOps(selected)
           n == Len(ops)
           reached(k) == f = 0 \/ f > k        \* operation k completed
           click == ShouldClick(selected)
           e == [answered |-> reached(2),
                 wasSelected |-> selected /\ reached(2),
                 clicks |-> IF click /\ (f = 0 \/ f >= 3) THEN 1 ELSE 0,
                 checkedAtSave |-> reached(n - 1) /\ (IF click THEN ~selected ELSE selected),
                 saved |-> reached(n - 1),
                 confirmed |-> f = 0]
       IN  /\ box' = e
           /\ AddOps(4)
           /\ saves' = IF reached(n - 1)
                        THEN Append(saves, [unit |-> unit_ids[u], confirmed |-> f = 0])
                        ELSE saves
           /\ cycles' = 0
           /\ allStale' = TRUE
           /\ IF f = 0
              THEN /\ result' = AddDetail(result, Entry("Enabled review for", unit_ids[u], 0))
                   /\ u' = NextUnit(u)
                   /\ pc' = "s4"
                   /\ exc' = exc
              ELSE /\ exc' = ExcOf(ops[f])
                   /\ pc' = "except"
                   /\ UNCHANGED <<result, u>>
    /\ UNCHANGED procVars
    /\ UNCHANGED runRest
    /\ UNCHANGED <<parts, completion_dt, new_assessment_id, unit_ids, attempts,
                   max_attempts, typed, clock, cfg, keys, enabled>>

\* Stage 4, the unit loop is exhausted: the try body ends normally
UnitsDone ==
    /\ pc = "s4"
    /\ ~(u <= Len(unit_ids))
    /\ pc' = "finally"
    /\ UNCHANGED procVars
    /\ UNCHANGED runRest
    /\ UNCHANGED itemVars

\* Variant: no handler, the exception ends the run
ExceptPropagates ==
    /\ pc = "except"
    /\ pc' = "returned"
    /\ exit' = "raised"
    /\ UNCHANGED procVars
    /\ UNCHANGED <<driver, assessment_data, inputLines, lines, i, results, runQuits,
                   login, pipelineUsed, processed>>
    /\ UNCHANGED itemVars

\* except Exception as e.  The text of str(e) is not modelled: the entry says
\* only that an error was recorded; exc keeps the exception until the finally.
Except ==
    /\ pc = "except"
    /\ result' = AddDetail([result EXCEPT !.Status = "Failed"], Entry("Error", <<>>, 0))
    /\ pc' = "finally"
    /\ UNCHANGED procVars
    /\ UNCHANGED runRest
    /\ UNCHANGED <<parts, completion_dt, new_assessment_id, unit_ids, u, attempts,
                   max_attempts, exc, opStages, cycles, allStale, typed, clock, cfg, saves,
                   keys, enabled, box>>

\* finally: the Result is appended, then the next iteration starts.  The
\* iteration's locals are dead from here on and are cleared.
Finally ==
    /\ pc = "finally"
    /\ results' = Append(results, result)
    /\ i' = i + 1
    /\ pc' = "loop"
    /\ ItemClear
    /\ UNCHANGED procVars
    /\ UNCHANGED <<exit, driver, assessment_data, inputLines, lines, runQuits, login,
                   pipelineUsed, processed>>

\* The loop is exhausted: quit the driver and show the summary
Finish ==
    /\ pc = "loop"
    /\ ~(i < Len(lines))
    /\ DriverQuit
    /\ pc' = "returned"
    /\ exit' = "done"
    /\ UNCHANGED <<runBudget, lineBudget, unitBudget, run, cache, createdRun, deadOps>>
    /\ UNCHANGED <<driver, assessment_data, inputLines, lines, i, results, login,
                   pipelineUsed, processed>>
    /\ UNCHANGED itemVars

\* perform_automation returns: its locals are gone
Return ==
    /\ pc = "returned"
    /\ RunClear
    /\ ItemClear
    /\ UNCHANGED procVars

Next ==
    \/ StartRun
    \/ \E f \in 0..Len(LoginOps) : Login(f)
    \/ ReadLines
    \/ ItemBegin
    \/ ParseTimestamp
    \/ \E now \in 0..(MaxNow * TicksPerSecond), f \in 0..Len(Stage1Ops) :
          CreateReviewConfig(now, f)
    \/ \E f \in 0..Len(Stage2Ops) : SearchAssessment(f)
    \/ \E outcome \in {"ok", Stale, Timeout}, text \in AssessmentIdTexts :
          get_stale_proof_text(outcome, text)
    \/ TextRaise
    \/ \E f \in 0..Len(Stage3Ops) : SearchUnits(f)
    \/ \E outcome \in {"ok", Stale, Timeout}, rows \in UnitLists \ {<<>>} :
          ReadUnitIds(outcome, rows)
    \/ CheckUnitIds
    \/ \E f \in 0..Len(Stage4Ops) : SearchExam(f)
    \/ \E outcome \in {"ok", Stale, Timeout} : stale_proof_click(outcome)
    \/ ClickRaise
    \/ \E selected \in BOOLEAN : \E f \in 0..Len(BoxOps(selected)) : EnableReview(selected, f)
    \/ UnitsDone
    \/ Except
    \/ Finally
    \/ Finish
    \/ Return

Spec == Init /\ [][Next]_vars

SpecRuns == InitRuns /\ [][Next]_vars
SpecUnits == InitUnits /\ [][Next]_vars

\* ------------------------------------------------------------------------
\* Properties
\* ------------------------------------------------------------------------
\* The run is inside the loop body of an item (lines[i + 1])
InItem ==
    pc \in {"ts", "s1", "s2", "gst", "s3", "s3_read", "s3_check", "s4", "spc", "box",
            "except", "finally"}

\* Number of commas of a line
CommaCount(line) == Cardinality({ k \in 1..Len(line) : line[k] = "," })

\* The arguments of the entries of a detail log that carry the given tag
RECURSIVE ArgsOf(_, _)
ArgsOf(details, tag) ==
    IF details = <<>> THEN <<>>
    ELSE (IF Head(details).tag = tag THEN <<Head(details).arg>> ELSE <<>>)
             \o ArgsOf(Tail(details), tag)

Tags(details) == { details[k].tag : k \in 1..Len(details) }

\* C1: when a run whose startup and login succeeded has ended, the results
\* list holds exactly one entry per non-blank line of the input.
C1_OneResultPerLine ==
    (pc = "returned" /\ exit = "done") => Len(results) = inputLines

\* C2 as stated: a line whose field count is not 2 gets status Failed and the
\* detail "Malformed line", and no browser operation is issued for it.
C2_MalformedLineDetail ==
    (InItem /\ CommaCount(lines[i + 1]) # 1) =>
        /\ pc = "finally"
        /\ opStages = {}
        /\ result.Status = "Failed"
        /\ result.Details = <<Entry("Malformed line", <<>>, 0)>>

\* C2 as amended: a line whose field count is not 2 goes straight to the end
\* of its iteration with status Failed and the detail "Malformed input line",
\* that Result is on the results list, and no browser operation is issued
\* from the start of the item to the start of the next.
C2_MalformedRejected ==
    (InItem /\ CommaCount(lines[i + 1]) # 1) =>
        /\ pc = "finally"
        /\ opStages = {}
        /\ result.Status = "Failed"
        /\ result.Details = <<Entry("Malformed input line", <<>>, 0)>>
        /\ results # <<>>
        /\ results[Len(results)] = result

\* A line with three fields, as the second item, is at the end of its iteration
C2_Witness ==
    /\ pc = "finally"
    /\ i = 1
    /\ CommaCount(lines[i + 1]) = 2
    /\ "Malformed input line" \in Tags(result.Details)

\* C3: when stage 3 ends without an exception and with no unit ids, the
\* item's Result is a failure that says so, and no stage-4 operation was issued.
C3_NoUnitsIsFailure ==
    (pc = "finally" /\ 3 \in opStages /\ exc = "" /\ unit_ids = <<>>) =>
        /\ result.Status = "Failed"
        /\ "No Unit IDs found" \in Tags(result.Details)
        /\ 4 \notin opStages
        /\ enabled = <<>>

\* C4: a run that created the session holds it unreleased until it returns,
\* and at every return it has called driver.quit() exactly once.
C4_QuitExactlyOnce ==
    driver =>
        /\ pc # "returned" => (alive /\ runQuits = 0 /\ quits = 0)
        /\ pc = "returned" => (~alive /\ runQuits = 1 /\ quits = 1)

\* The loop ended normally after one failed and one successful item
C4_Witness ==
    /\ pc = "returned" /\ exit = "done" /\ runQuits = 1
    /\ \E a, b \in 1..Len(results) :
          results[a].Status = "Failed" /\ results[b].Status = "Success"

\* C5: every run works on a session created by that run; no operation is
\* issued on a session that was quit, and no session is quit twice.
C5_NoLeakAcrossRuns ==
    /\ driver => createdRun = run
    /\ deadOps = 0
    /\ quits <= 1

\* C6: after a successful login the items are entered one at a time in input
\* order, an exception inside an item becomes that item's Failed Result, and
\* the run returns only when every line has been entered.
C6_BatchContinues ==
    /\ processed = [k \in 1..Len(processed) |-> k]
    /\ InItem => Len(processed) = i + 1
    /\ pc = "loop" => Len(processed) = i
    /\ (pc = "returned" /\ login = "ok") =>
          /\ exit \in {"done", "nolines"}
          /\ Len(processed) = Len(lines)
    /\ (pc = "finally" /\ exc # "") =>
          /\ result.Status = "Failed"
          /\ result.Details[Len(result.Details)].tag = "Error"

\* The second item is in its pipeline after the first ended with an exception
C6_Witness ==
    /\ pc = "s2"
    /\ i = 1
    /\ "Error" \in Tags(results[1].Details)

\* C7: an accessor never makes more than max_attempts cycles, and when every
\* cycle ended stale it raises its exhaustion error after exactly
\* max_attempts cycles.
C7_ExactlyMaxAttempts ==
    /\ pc \in {"gst", "spc"} => cycles <= max_attempts
    /\ (exc \in {TextExhausted, ClickExhausted} /\ allStale) =>
          /\ cycles = max_attempts
          /\ attempts = max_attempts
          /\ max_attempts = 5

\* stale_proof_click has raised after five stale cycles
C7_Witness ==
    /\ pc = "except"
    /\ exc = ClickExhausted
    /\ allStale
    /\ cycles = 5

\* C8: a failed login ends the run at once: the driver is quit, no line is
\* read, no item is entered, no Result exists and no pipeline operation was issued.
C8_LoginFailureAborts ==
    login = "failed" =>
        /\ pc = "returned"
        /\ exit = "login"
        /\ ~alive
        /\ runQuits = 1
        /\ lines = <<>>
        /\ processed = <<>>
        /\ results = <<>>
        /\ ~pipelineUsed

\* The login of a run on its own fresh session has failed
C8_Witness ==
    /\ login = "failed"
    /\ pc = "returned"
    /\ createdRun = run
    /\ inputLines > 0

\* C9: when the try body of an item ends normally with unit ids U, the enable
\* stage was entered once per element of U in list order, the status is
\* Success and the detail log names the units of U in that order.
C9_EnablePerUnitInOrder ==
    (pc = "finally" /\ exc = "" /\ unit_ids # <<>>) =>
        /\ enabled = unit_ids
        /\ result.Status = "Success"
        /\ ArgsOf(result.Details, "Enabled review for") = unit_ids
        /\ box.confirmed

\* An item with two units has succeeded
C9_Witness ==
    /\ pc = "finally"
    /\ exc = ""
    /\ unit_ids = <<UnitA, UnitB>>
    /\ result.Status = "Success"

\* C10: the checkbox is clicked at most once per unit: never when
\* is_selected() answered true, once before the save when it answered false;
\* whenever save is clicked the control is checked.
C10_ClickOnlyWhenUnselected ==
    /\ box.clicks <= 1
    /\ (box.answered /\ box.wasSelected) => box.clicks = 0
    /\ (box.answered /\ ~box.wasSelected /\ box.saved) => box.clicks = 1
    /\ box.saved => box.checkedAtSave

\* A unit whose checkbox was off has been saved
C10_Witness ==
    /\ box.confirmed
    /\ ~box.wasSelected
    /\ box.clicks = 1
    /\ box.checkedAtSave

\* C11: the delay typed into the review-config form is never negative; it is
\* 0 when the completion timestamp is not before the clock; otherwise it is the
\* number of whole seconds elapsed since the completion timestamp.
C11_DelayIsClampedElapsed ==
    typed # -1 =>
       LET elapsed == clock - completion_dt * TicksPerSecond
       IN  /\ typed >= 0
           /\ elapsed <= 0 => typed = 0
           /\ elapsed > 0 =>
                 /\ typed * TicksPerSecond <= elapsed
                 /\ elapsed < (typed + 1) * TicksPerSecond

\* A timestamp in the future has been typed as 0 seconds
C11_Witness ==
    /\ typed = 0
    /\ clock >= 0
    /\ completion_dt * TicksPerSecond > clock + TicksPerSecond

\* The text of a line before its first comma
RECURSIVE UpToComma(_)
UpToComma(line) ==
    IF line = <<>> \/ Head(line) = "," THEN <<>>
    ELSE <<Head(line)>> \o UpToComma(Tail(line))

\* The identifier the Result of a line carries: none for a malformed line
IdOfLine(line) ==
    IF CommaCount(line) = 1 THEN Strip(UpToComma(line)) ELSE <<>>

\* C12: when a run has ended, the k-th entry of the results list is the Result
\* of the k-th non-blank line of the input, for every k.
C12_ReportFollowsInput ==
    (pc = "returned" /\ exit = "done") =>
        \A k \in 1..Len(results) :
            /\ k <= Len(lines)
            /\ results[k].ID = IdOfLine(lines[k])

\* C13: when stage 4 raises while the m-th unit is being processed, m >= 2:
\* the exam forms of units 1..m-1 were submitted and confirmed, in order, and
\* stay so; nothing was typed or submitted for a unit after the m-th; the
\* Result is Failed; and its detail log ends with the "Enabled review for"
\* entries of units 1..m-1, in order, followed by the error entry.
C13_PartialUnitsKept ==
    (pc = "finally" /\ exc # "" /\ 4 \in opStages /\ Len(enabled) >= 2) =>
        LET m == Len(enabled)
            d == result.Details
            n == Len(d)
        IN  /\ enabled = SubSeq(unit_ids, 1, m)
            /\ Len(saves) \in {m - 1, m}
            /\ \A k \in 1..(m - 1) :
                   saves[k] = [unit |-> unit_ids[k], confirmed |-> TRUE]
            /\ \A k \in 1..Len(saves) : saves[k].unit = unit_ids[k]
            /\ \A k \in 1..Len(keys) :
                   keys[k].stage = 4 =>
                       \E j \in 1..m : keys[k].key = SubSeq(unit_ids[j], 1, PrefixLen)
            /\ result.Status = "Failed"
            /\ n >= m
            /\ d[n].tag = "Error"
            /\ \A k \in 1..(m - 1) :
                   d[n - m + k] = Entry("Enabled review for", unit_ids[k], 0)
            /\ ArgsOf(d, "Enabled review for") = SubSeq(unit_ids, 1, m - 1)

\* Of three units the first was saved and the second failed
C13_Witness ==
    /\ pc = "finally"
    /\ exc # ""
    /\ Len(unit_ids) = 3
    /\ Len(enabled) = 2
    /\ Len(saves) = 1
    /\ saves[1].confirmed
    /\ result.Status = "Failed"

\* C14: within an item the stages run in the order 1, 2, 3, 4.  A stage
\* issues operations only if every earlier stage did and the stage before it
\* completed (stage 1: config confirmed and logged; stage 2: id resolved;
\* stage 3: units read and counted), so after a failure no later stage acts.
\* The search terms are typed in stage order, stages 1 to 3 once each; the
\* review-config form is submitted at most once and no unit's exam form is
\* saved twice.
C14_StagesInOrderOnce ==
    /\ \A k \in opStages : \A j \in 1..k : j \in opStages
    /\ 2 \in opStages =>
          cfg.confirmed /\ "Review config created" \in Tags(result.Details)
    /\ 3 \in opStages => new_assessment_id # <<>>
    /\ 4 \in opStages =>
          unit_ids # <<>> /\ "Found units" \in Tags(result.Details)
    /\ \A j, k \in 1..Len(keys) :
          j < k => /\ keys[j].stage <= keys[k].stage
                   /\ keys[j].stage = keys[k].stage => keys[k].stage = 4
    /\ \A k \in 1..Len(keys) : keys[k].stage \in opStages
    /\ cfg.submitted <= 1
    /\ \A j, k \in 1..Len(saves) : j < k => saves[j].unit # saves[k].unit

\* An item has run all four stages and saved two units
C14_Witness ==
    /\ pc = "finally"
    /\ exc = ""
    /\ opStages = {1, 2, 3, 4}
    /\ cfg.submitted = 1
    /\ Len(saves) = 2
    /\ Len(keys) = 5

\* The timestamp field of a two-field line matches neither format
BadTimestamp(line) ==
    /\ CommaCount(line) = 1
    /\ LET ts == Strip(SubSeq(line, Len(UpToComma(line)) + 2, Len(line)))
       IN  Strptime(ts, FmtSeconds) = -1 /\ Strptime(ts, FmtMinutes) = -1

\* C15: a first line whose timestamp matches neither format is rejected for
\* that item only: when its iteration is over exactly one Result is recorded
\* for it, with status Failed and the invalid-datetime detail, no browser
\* operation was issued for it, and the loop is ready for the next line.
C15_BadTimestampOneResult ==
    (pc = "loop" /\ i = 1 /\ BadTimestamp(lines[1])) =>
        /\ Len(results) = 1
        /\ results[1].Status = "Failed"
        /\ results[1].Details = <<Entry("Invalid datetime format", <<>>, 0)>>
        /\ ~pipelineUsed

\* C16: an accessor absorbs its retryable errors.  While it runs no exception
\* is pending; when it has returned (the text, or True) at most max_attempts
\* cycles were made and no exception is pending; and an exception that came
\* out of stale_proof_click, or out of get_stale_proof_text after stale
\* elements only, is the one raised after max_attempts failed cycles.
C16_TransientErrorsAbsorbed ==
    /\ pc \in {"gst", "spc"} => exc = ""
    /\ pc = "s3" =>
          /\ exc = ""
          /\ cycles \in 1..TextMaxAttempts
          /\ new_assessment_id \in AssessmentIdTexts
    /\ pc = "box" =>
          /\ exc = ""
          /\ cycles \in 1..ClickMaxAttempts
    /\ (pc \in {"except", "finally"} /\ cycles > 0 /\ 4 \in opStages) =>
          /\ exc = ClickExhausted
          /\ cycles = ClickMaxAttempts
    /\ (pc \in {"except", "finally"} /\ cycles > 0 /\ 3 \notin opStages /\ allStale) =>
          /\ exc = TextExhausted
          /\ cycles = TextMaxAttempts

\* stale_proof_click has returned True on its last attempt, after four failed
\* cycles of which at least one was a wait timeout
C16_Witness ==
    /\ pc = "box"
    /\ cycles = ClickMaxAttempts
    /\ ~allStale
    /\ exc = ""

\* key holds the first eight characters of id, or all of a shorter id
IsPrefix8(key, id) ==
    /\ Len(key) = (IF Len(id) < 8 THEN Len(id) ELSE 8)
    /\ \A k \in 1..Len(key) : key[k] = id[k]

\* The search terms typed so far by the blocks of a stage, in order
RECURSIVE KeysOf(_, _)
KeysOf(ks, stage) ==
    IF ks = <<>> THEN <<>>
    ELSE (IF Head(ks).stage = stage THEN <<Head(ks).key>> ELSE <<>>)
             \o KeysOf(Tail(ks), stage)

\* C17: every search term typed in stage 1 and in stage 2 is the 8-character
\* prefix of the item's original id; the term of stage 3 is the prefix of the
\* id resolved in stage 2; and the terms of stage 4 are, one per unit taken
\* and in the order of the list read in stage 3, the prefixes of the unit ids.
C17_SearchKeys ==
    LET k4 == KeysOf(keys, 4)
    IN  /\ \A k \in 1..Len(keys) :
              /\ keys[k].stage \in {1, 2} => IsPrefix8(keys[k].key, result.ID)
              /\ keys[k].stage = 3 => IsPrefix8(keys[k].key, new_assessment_id)
        /\ Len(k4) <= Len(unit_ids)
        /\ \A k \in 1..Len(k4) : IsPrefix8(k4[k], unit_ids[k])

\* All four stages have searched for an item whose resolved id has another
\* prefix than its original id
C17_Witness ==
    /\ Len(KeysOf(keys, 4)) = 2
    /\ KeysOf(keys, 3) # KeysOf(keys, 1)
    /\ KeysOf(keys, 2) = KeysOf(keys, 1)
    /\ Len(result.ID) > 8

\* C18: an item ends with status Success only if no exception was raised,
\* stage 1 was confirmed, stage 2 resolved an id, stage 3 found at least one
\* unit, and the save of every unit was submitted and confirmed; every item
\* that ended earlier has status Failed.
C18_SuccessMeansAllDone ==
    pc = "finally" =>
        /\ result.Status \in {"Success", "Failed"}
        /\ result.Status = "Success" =>
              /\ exc = ""
              /\ cfg.confirmed
              /\ new_assessment_id # <<>>
              /\ unit_ids # <<>>
              /\ Len(saves) = Len(unit_ids)
              /\ \A k \in 1..Len(saves) :
                     saves[k] = [unit |-> unit_ids[k], confirmed |-> TRUE]

\* The units of the confirmed saves, in the order of the saves
RECURSIVE ConfirmedUnits(_)
ConfirmedUnits(ss) ==
    IF ss = <<>> THEN <<>>
    ELSE (IF Head(ss).confirmed THEN <<Head(ss).unit>> ELSE <<>>)
             \o ConfirmedUnits(Tail(ss))

\* C19: the detail log of an item says "Review config created" only if the
\* banner of stage 1 was seen, and its "Enabled review for" entries name, in
\* order, only units whose save was submitted and confirmed by the banner;
\* the k-th entry names the k-th confirmed save.
C19_LogNeverOverReports ==
    LET said == ArgsOf(result.Details, "Enabled review for")
        done == ConfirmedUnits(saves)
    IN  /\ "Review config created" \in Tags(result.Details) =>
               cfg.submitted = 1 /\ cfg.confirmed
        /\ Len(said) <= Len(done)
        /\ \A k \in 1..Len(said) : said[k] = done[k]

\* One unit is logged and confirmed, the save of the next was submitted but
\* its banner never came
C19_Witness ==
    /\ pc = "finally"
    /\ Len(saves) = 2
    /\ saves[1].confirmed
    /\ ~saves[2].confirmed
    /\ ArgsOf(result.Details, "Enabled review for") = <<saves[1].unit>>
    /\ "Review config created" \in Tags(result.Details)

====
